---- MODULE Spec2Model ----
(***************************************************************************)
(* Bucket sub-resource controllers of pkg/controller/s3/bucket:            *)
(* LoggingConfigurationClient and SSEConfigurationClient.  Each client     *)
(* offers LateInitialize, Observe, CreateOrUpdate and Delete on one        *)
(* v1beta1.Bucket and one S3 bucket.                                       *)
(*                                                                         *)
(* Representation.  A Go pointer, and a Go slice that may be nil, is a     *)
(* sequence of length at most one: Nil is the nil pointer / nil slice and  *)
(* Ptr(v) points at v.  A non-nil slice is Ptr(<<e1, ..., en>>), so the    *)
(* nil slice Nil and the empty slice Ptr(<<>>) are different values, as    *)
(* they are for cmp.Equal.  Go string conversions between string and the   *)
(* SDK's named string types (awss3.Type, awss3.BucketLogsPermission,       *)
(* awss3.ServerSideEncryption) keep the characters and are equalities.     *)
(***************************************************************************)
EXTENDS Integers, Sequences, FiniteSets, TLC

VARIABLES
    LoggingConfiguration,               \* bucket.Spec.ForProvider.LoggingConfiguration
    ServerSideEncryptionConfiguration,  \* bucket.Spec.ForProvider.ServerSideEncryptionConfiguration
    awsLogging,     \* what S3 holds as the bucket's LoggingEnabled
    awsSSE,         \* what S3 holds as the bucket's encryption configuration
    last,           \* the call that produced this state, with its results
    since,          \* per facet: the successful remote writes since the last other call
    running         \* per facet: the operation in flight, step by step, when two run at once

vars == <<LoggingConfiguration, ServerSideEncryptionConfiguration,
          awsLogging, awsSSE, last, since, running>>

----------------------------------------------------------------------------
(* Bounds *)

MaxGrants == 2      \* longest TargetGrants list drawn in Init
MaxRules == 2       \* longest Rules list drawn in Init
MaxStreak == 2      \* cap of the count of consecutive successful writes

----------------------------------------------------------------------------
(* Pointers and slices *)

Nil == <<>>
Ptr(v) == <<v>>
Deref(p) == p[1]

\* len() of a slice that may be nil
Len0(s) == IF s = Nil THEN 0 ELSE Len(Deref(s))

\* the elements of a slice that may be nil
Elems(s) == IF s = Nil THEN <<>> ELSE Deref(s)

\* all sequences over S of length 0..n
SeqsUpTo(S, n) == UNION {[1..k -> S] : k \in 0..n}

----------------------------------------------------------------------------
(* Constants of the source *)

loggingGetFailed == "cannot get Bucket logging configuration"
loggingPutFailed == "cannot put Bucket logging configuration"
sseGetFailed == "cannot get Bucket encryption configuration"
ssePutFailed == "cannot put Bucket encryption configuration"
sseDeleteFailed == "cannot delete Bucket encryption configuration"

Updated == "Updated"
NeedsUpdate == "NeedsUpdate"
NeedsDeletion == "NeedsDeletion"

\* error codes of the S3 API as the client returns them
SSENotFoundCode == "ServerSideEncryptionConfigurationNotFoundError"
OtherErrorCode == "InternalError"

----------------------------------------------------------------------------
(* Helpers of pkg/clients (awsclient), pkg/clients/s3 and crossplane-runtime *)

\* awsclient.String: the empty string converts to the nil pointer
String(v) == IF v = "" THEN Nil ELSE Ptr(v)

\* awsclient.StringValue: the nil pointer converts to the empty string
StringValue(p) == IF p = Nil THEN "" ELSE Deref(p)

\* awsclient.LateInitializeStringPtr
LateInitializeStringPtr(in, from) == IF in # Nil THEN in ELSE from

\* awsclient.LateInitializeString
LateInitializeString(in, from) ==
    IF in = "" /\ from # Nil THEN Deref(from) ELSE in

\* awsclient.Wrap: nil stays nil, an error is tagged with the message
Wrap(err, msg) ==
    IF err = Nil THEN Nil ELSE Ptr([tag |-> msg, cause |-> Deref(err)])

\* s3.SSEConfigurationNotFound
SSEConfigurationNotFound(err) == err # Nil /\ Deref(err) = SSENotFoundCode

\* an Ignore that drops every error
IgnoreAll(err) == Nil

\* an Ignore that drops no error
IgnoreNothing(err) == err

\* resource.Ignore(s3.SSEConfigurationNotFound, err)
Ignore(err) == IF SSEConfigurationNotFound(err) THEN Nil ELSE err

----------------------------------------------------------------------------
(* Logging facet: translations *)

\* the zero value of v1beta1.TargetGrant, as make() fills a new slice
ZeroTargetGrant ==
    [Grantee |-> [DisplayName |-> Nil, EmailAddress |-> Nil, ID |-> Nil,
                  Type |-> "", URI |-> Nil],
     Permission |-> ""]

\* awss3.TargetGrant built from a v1beta1.TargetGrant: the Grantee is a
\* pointer to a new awss3.Grantee
AWSTargetGrant(grant) ==
    [Grantee |-> Ptr([DisplayName |-> grant.Grantee.DisplayName,
                      EmailAddress |-> grant.Grantee.EmailAddress,
                      ID |-> grant.Grantee.ID,
                      Type |-> grant.Grantee.Type,
                      URI |-> grant.Grantee.URI]),
     Permission |-> grant.Permission]

\* a copy that leaves out the URI of the grantee
LocalTargetGrantNoURI(v) ==
    [Grantee |-> [DisplayName |-> Deref(v.Grantee).DisplayName,
                  EmailAddress |-> Deref(v.Grantee).EmailAddress,
                  ID |-> Deref(v.Grantee).ID,
                  Type |-> Deref(v.Grantee).Type,
                  URI |-> Nil],
     Permission |-> v.Permission]

\* v1beta1.TargetGrant built from an awss3.TargetGrant whose Grantee is set
LocalTargetGrant(v) ==
    [Grantee |-> [DisplayName |-> Deref(v.Grantee).DisplayName,
                  EmailAddress |-> Deref(v.Grantee).EmailAddress,
                  ID |-> Deref(v.Grantee).ID,
                  Type |-> Deref(v.Grantee).Type,
                  URI |-> Deref(v.Grantee).URI],
     Permission |-> v.Permission]

\* TargetGrants of GenerateAWSLogging: a nil local list stays nil, any other
\* list becomes a list of the same length
GenerateAWSLoggingGrants(grants) ==
    IF grants # Nil
    THEN Ptr([i \in 1..Len(Deref(grants)) |-> AWSTargetGrant(Deref(grants)[i])])
    ELSE Nil

GenerateAWSLogging(local) ==
    IF local = Nil
    THEN Nil
    ELSE Ptr([TargetBucket |-> Deref(local).TargetBucket,
              TargetPrefix |-> String(Deref(local).TargetPrefix),
              TargetGrants |-> GenerateAWSLoggingGrants(Deref(local).TargetGrants)])

\* TargetGrants of GeneratePutBucketLoggingInput: make([]awss3.TargetGrant, 0)
\* and one append per local grant, so the list is never nil
PutBucketLoggingGrants(grants) ==
    Ptr([i \in 1..Len0(grants) |-> AWSTargetGrant(Deref(grants)[i])])

\* BucketLoggingStatus.LoggingEnabled of GeneratePutBucketLoggingInput
GeneratePutBucketLoggingInput(config) ==
    Ptr([TargetBucket |-> config.TargetBucket,
         TargetPrefix |-> String(config.TargetPrefix),
         TargetGrants |-> PutBucketLoggingGrants(config.TargetGrants)])

\* cmp.Equal with cmpopts.IgnoreTypes(&xpv1.Reference{}, &xpv1.Selector{}):
\* awss3.LoggingEnabled holds no value of the ignored types, so this is deep
\* equality; a nil and an empty slice differ, two nil pointers are equal
CmpEqual(x, y) == x = y

\* index of the first remote grant whose Grantee is nil, 0 when there is none
FirstNilGrantee(ext) ==
    IF \E i \in 1..Len(ext) : ext[i].Grantee = Nil
    THEN CHOOSE i \in 1..Len(ext) :
            /\ ext[i].Grantee = Nil
            /\ \A j \in 1..(i - 1) : ext[j].Grantee # Nil
    ELSE 0

\* the loop of LateInitialize over external.LoggingEnabled.TargetGrants: the
\* new list has the remote length; reading v.Grantee.DisplayName through a
\* nil Grantee panics and leaves the later elements at their zero value
LateInitializeGrants(ext) ==
    [i \in 1..Len(ext) |->
        IF FirstNilGrantee(ext) = 0 \/ i < FirstNilGrantee(ext)
        THEN LocalTargetGrant(ext[i])
        ELSE ZeroTargetGrant]

\* the local TargetGrants after LateInitialize
LateInitializeTargetGrants(grants, extGrants) ==
    IF extGrants # Nil /\ Len0(grants) = 0
    THEN Ptr(LateInitializeGrants(Deref(extGrants)))
    ELSE grants

\* whether LateInitialize panics on its way through the grants
LateInitializeGrantsPanic(grants, extGrants) ==
    /\ extGrants # Nil
    /\ Len0(grants) = 0
    /\ FirstNilGrantee(Deref(extGrants)) # 0

\* the configuration LateInitialize works on: a new empty one when nil
EmptyLoggingConfiguration ==
    [TargetBucket |-> Nil, TargetPrefix |-> "", TargetGrants |-> Nil]

\* bucket.Spec.ForProvider.LoggingConfiguration after LateInitialize read a
\* non-nil external.LoggingEnabled
LoggingLateInitialized(local, enabled) ==
    LET config == IF local = Nil THEN EmptyLoggingConfiguration ELSE Deref(local)
    IN Ptr([TargetBucket |-> LateInitializeStringPtr(config.TargetBucket, enabled.TargetBucket),
            TargetPrefix |-> LateInitializeString(config.TargetPrefix, enabled.TargetPrefix),
            TargetGrants |-> LateInitializeTargetGrants(config.TargetGrants, enabled.TargetGrants)])

----------------------------------------------------------------------------
(* Encryption facet: translations *)

\* Rules of GeneratePutBucketEncryptionInput
GeneratePutBucketEncryptionInput(config) ==
    [Rules |-> Ptr([i \in 1..Len0(config.Rules) |->
        [ApplyServerSideEncryptionByDefault |->
            Ptr([KMSMasterKeyID |-> Deref(config.Rules)[i].ApplyServerSideEncryptionByDefault.KMSMasterKeyID,
                 SSEAlgorithm |-> Deref(config.Rules)[i].ApplyServerSideEncryptionByDefault.SSEAlgorithm])]])]

\* index of the first remote rule without ApplyServerSideEncryptionByDefault
FirstNilApply(rules) ==
    IF \E i \in 1..Len(rules) : rules[i].ApplyServerSideEncryptionByDefault = Nil
    THEN CHOOSE i \in 1..Len(rules) :
            /\ rules[i].ApplyServerSideEncryptionByDefault = Nil
            /\ \A j \in 1..(i - 1) : rules[j].ApplyServerSideEncryptionByDefault # Nil
    ELSE 0

\* GenerateLocalBucketEncryption panics when it reads through a nil
\* ApplyServerSideEncryptionByDefault
GenerateLocalBucketEncryptionPanic(config) == FirstNilApply(Elems(config.Rules)) # 0

\* GenerateLocalBucketEncryption, for a configuration it does not panic on
GenerateLocalBucketEncryption(config) ==
    Ptr([i \in 1..Len0(config.Rules) |->
        [ApplyServerSideEncryptionByDefault |->
            [KMSMasterKeyID |-> Deref(Deref(config.Rules)[i].ApplyServerSideEncryptionByDefault).KMSMasterKeyID,
             SSEAlgorithm |-> Deref(Deref(config.Rules)[i].ApplyServerSideEncryptionByDefault).SSEAlgorithm]]])

\* a comparison that forgets the algorithm
RuleDiffersKeyOnly(outputRule, Rule) ==
    StringValue(outputRule.KMSMasterKeyID)
        # StringValue(Rule.ApplyServerSideEncryptionByDefault.KMSMasterKeyID)

\* the comparison of one rule pair in Observe
RuleDiffers(outputRule, Rule) ==
    \/ StringValue(outputRule.KMSMasterKeyID)
         # StringValue(Rule.ApplyServerSideEncryptionByDefault.KMSMasterKeyID)
    \/ outputRule.SSEAlgorithm # Rule.ApplyServerSideEncryptionByDefault.SSEAlgorithm

\* the loop of Observe over config.Rules, from rule i on, for lists of equal
\* length: the first rule that panics or differs decides
RECURSIVE ObserveRules(_, _, _)
ObserveRules(ext, rules, i) ==
    IF i > Len(rules) THEN [status |-> Updated, panic |-> FALSE]
    ELSE IF ext[i].ApplyServerSideEncryptionByDefault = Nil
         THEN [status |-> "", panic |-> TRUE]
    ELSE IF RuleDiffers(Deref(ext[i].ApplyServerSideEncryptionByDefault), rules[i])
         THEN [status |-> NeedsUpdate, panic |-> FALSE]
    ELSE ObserveRules(ext, rules, i + 1)

\* a switch that asks for deletion whenever S3 holds a configuration
SSEObserveSwitchDeleteFirst(external, config) ==
    IF external # Nil THEN [status |-> NeedsDeletion, panic |-> FALSE]
    ELSE IF config = Nil THEN [status |-> Updated, panic |-> FALSE]
    ELSE [status |-> NeedsUpdate, panic |-> FALSE]

\* a switch that only notices a remote list shorter than the local one
SSEObserveSwitchShorterOnly(external, config) ==
    IF external # Nil /\ config = Nil THEN [status |-> NeedsDeletion, panic |-> FALSE]
    ELSE IF external = Nil /\ config = Nil THEN [status |-> Updated, panic |-> FALSE]
    ELSE IF external = Nil /\ config # Nil THEN [status |-> NeedsUpdate, panic |-> FALSE]
    ELSE IF Len0(Deref(external).Rules) < Len0(Deref(config).Rules)
         THEN [status |-> NeedsUpdate, panic |-> FALSE]
    ELSE ObserveRules(Elems(Deref(external).Rules), Elems(Deref(config).Rules), 1)

\* the switch and the loop of Observe after a successful read
SSEObserveSwitch(external, config) ==
    IF external # Nil /\ config = Nil THEN [status |-> NeedsDeletion, panic |-> FALSE]
    ELSE IF external = Nil /\ config = Nil THEN [status |-> Updated, panic |-> FALSE]
    ELSE IF external = Nil /\ config # Nil THEN [status |-> NeedsUpdate, panic |-> FALSE]
    ELSE IF Len0(Deref(external).Rules) # Len0(Deref(config).Rules)
         THEN [status |-> NeedsUpdate, panic |-> FALSE]
    ELSE ObserveRules(Elems(Deref(external).Rules), Elems(Deref(config).Rules), 1)

----------------------------------------------------------------------------
(* The S3 client *)

\* GetBucketLoggingRequest(...).Send: the transport fails, or the response
\* carries the stored LoggingEnabled
GetBucketLogging(fail) ==
    IF fail
    THEN [err |-> Ptr(OtherErrorCode), LoggingEnabled |-> Nil]
    ELSE [err |-> Nil, LoggingEnabled |-> awsLogging]

\* GetBucketEncryptionRequest(...).Send: the transport fails, S3 answers that
\* the bucket has no encryption configuration, or the response carries the
\* stored configuration (possibly none)
GetBucketEncryption(fail) ==
    IF fail
    THEN [err |-> Ptr(OtherErrorCode), ServerSideEncryptionConfiguration |-> Nil]
    ELSE IF awsSSE.notFound
    THEN [err |-> Ptr(SSENotFoundCode), ServerSideEncryptionConfiguration |-> Nil]
    ELSE [err |-> Nil,
          ServerSideEncryptionConfiguration |-> awsSSE.ServerSideEncryptionConfiguration]

\* the error of a write request
SendError(fail) == IF fail THEN Ptr(OtherErrorCode) ELSE Nil

\* how the read of a call ended
ReadClass(err) ==
    IF err = Nil THEN "ok"
    ELSE IF SSEConfigurationNotFound(err) THEN "notfound"
    ELSE "failed"

----------------------------------------------------------------------------
(* Records of calls *)

Facets == {"logging", "sse"}

\* the bucket and the S3 state a call starts from
Snapshot ==
    [LoggingConfiguration |-> LoggingConfiguration,
     ServerSideEncryptionConfiguration |-> ServerSideEncryptionConfiguration,
     awsLogging |-> awsLogging,
     awsSSE |-> awsSSE]

NoWrite == [facet |-> "", op |-> "none", n |-> 0, after |-> ""]

\* The successful writes after one more call.  Observe leaves the entry alone;
\* a successful CreateOrUpdate or Delete that follows the same operation on the
\* same facet counts up to MaxStreak, and otherwise starts a new entry that
\* keeps the outcome of the Observe it directly follows, if any; any other
\* call on the entry's facet clears the entry.
SinceAfter(facet, op, wrote) ==
    IF op = "Observe" THEN since
    ELSE IF ~wrote THEN (IF since.facet = facet THEN NoWrite ELSE since)
    ELSE IF since.facet = facet /\ since.op = op
         THEN [since EXCEPT !.n = IF @ < MaxStreak THEN @ + 1 ELSE @]
    ELSE [facet |-> facet, op |-> op, n |-> 1,
          after |-> IF last.facet = facet /\ last.op = "Observe"
                    THEN last.status ELSE ""]

\* the record of a call: what it read, what it returned, the requests it sent
\* and the state it started from
Call(facet, op, read, status, err, panic, calls) ==
    [facet |-> facet, op |-> op, read |-> read, status |-> status, err |-> err,
     panic |-> panic, calls |-> calls, pre |-> Snapshot]

----------------------------------------------------------------------------
(* LoggingConfigurationClient *)

LoggingLateInitialize ==
    \E fail \in BOOLEAN :
        LET external == GetBucketLogging(fail)
            enabled == external.LoggingEnabled
            fill == external.err = Nil /\ enabled # Nil
            after == IF fill
                     THEN LoggingLateInitialized(LoggingConfiguration, Deref(enabled))
                     ELSE LoggingConfiguration
            panic == /\ fill
                     /\ LateInitializeGrantsPanic(
                            IF LoggingConfiguration = Nil THEN Nil
                            ELSE Deref(LoggingConfiguration).TargetGrants,
                            Deref(enabled).TargetGrants)
        IN /\ LoggingConfiguration' = after
           /\ last' = Call("logging", "LateInitialize", ReadClass(external.err), "",
                           IF panic THEN Nil ELSE Wrap(external.err, loggingGetFailed),
                           panic, <<"GetBucketLogging">>)
           /\ since' = SinceAfter("logging", "LateInitialize", FALSE)
           /\ UNCHANGED running
           /\ UNCHANGED <<ServerSideEncryptionConfiguration, awsLogging, awsSSE>>

\* an Observe that stores an empty grant list in place of a nil one
LoggingObserveNormalising ==
    \E fail \in BOOLEAN :
        LET external == GetBucketLogging(fail)
            status == IF external.err # Nil THEN NeedsUpdate
                      ELSE IF ~CmpEqual(GenerateAWSLogging(LoggingConfiguration),
                                        external.LoggingEnabled)
                      THEN NeedsUpdate
                      ELSE Updated
        IN /\ LoggingConfiguration' =
                IF LoggingConfiguration # Nil /\ Deref(LoggingConfiguration).TargetGrants = Nil
                THEN Ptr([Deref(LoggingConfiguration) EXCEPT !.TargetGrants = Ptr(<<>>)])
                ELSE LoggingConfiguration
           /\ last' = Call("logging", "Observe", ReadClass(external.err), status,
                           Wrap(external.err, loggingGetFailed), FALSE,
                           <<"GetBucketLogging">>)
           /\ since' = SinceAfter("logging", "Observe", FALSE)
           /\ UNCHANGED running
           /\ UNCHANGED <<ServerSideEncryptionConfiguration, awsLogging, awsSSE>>

\* an Observe that takes a nil configuration for an unmanaged facet
LoggingObserveUnmanaged ==
    \E fail \in BOOLEAN :
        LET external == GetBucketLogging(fail)
            status == IF external.err # Nil THEN NeedsUpdate
                      ELSE IF LoggingConfiguration = Nil THEN Updated
                      ELSE IF ~CmpEqual(GenerateAWSLogging(LoggingConfiguration),
                                        external.LoggingEnabled)
                      THEN NeedsUpdate
                      ELSE Updated
        IN /\ last' = Call("logging", "Observe", ReadClass(external.err), status,
                           Wrap(external.err, loggingGetFailed), FALSE,
                           <<"GetBucketLogging">>)
           /\ since' = SinceAfter("logging", "Observe", FALSE)
           /\ UNCHANGED running
           /\ UNCHANGED <<LoggingConfiguration, ServerSideEncryptionConfiguration,
                          awsLogging, awsSSE>>

LoggingObserve ==
    \E fail \in BOOLEAN :
        LET external == GetBucketLogging(fail)
            status == IF external.err # Nil THEN NeedsUpdate
                      ELSE IF ~CmpEqual(GenerateAWSLogging(LoggingConfiguration),
                                        external.LoggingEnabled)
                      THEN NeedsUpdate
                      ELSE Updated
        IN /\ last' = Call("logging", "Observe", ReadClass(external.err), status,
                           Wrap(external.err, loggingGetFailed), FALSE,
                           <<"GetBucketLogging">>)
           /\ since' = SinceAfter("logging", "Observe", FALSE)
           /\ UNCHANGED running
           /\ UNCHANGED <<LoggingConfiguration, ServerSideEncryptionConfiguration,
                          awsLogging, awsSSE>>

\* a CreateOrUpdate that sends an empty BucketLoggingStatus for a nil
\* configuration
LoggingCreateOrUpdateAlways ==
    \E fail \in BOOLEAN :
        LET input == IF LoggingConfiguration = Nil THEN Nil
                     ELSE GeneratePutBucketLoggingInput(Deref(LoggingConfiguration))
        IN /\ awsLogging' = IF fail THEN awsLogging ELSE input
           /\ last' = Call("logging", "CreateOrUpdate", "none", "",
                           Wrap(SendError(fail), loggingPutFailed), FALSE,
                           <<"PutBucketLogging">>)
           /\ since' = SinceAfter("logging", "CreateOrUpdate", ~fail)
           /\ UNCHANGED running
           /\ UNCHANGED <<LoggingConfiguration, ServerSideEncryptionConfiguration,
                          awsSSE>>

LoggingCreateOrUpdate ==
    IF LoggingConfiguration = Nil
    THEN /\ last' = Call("logging", "CreateOrUpdate", "none", "", Nil, FALSE, <<>>)
         /\ since' = SinceAfter("logging", "CreateOrUpdate", FALSE)
         /\ UNCHANGED running
         /\ UNCHANGED <<LoggingConfiguration, ServerSideEncryptionConfiguration,
                        awsLogging, awsSSE>>
    ELSE \E fail \in BOOLEAN :
            LET input == GeneratePutBucketLoggingInput(Deref(LoggingConfiguration))
            IN /\ awsLogging' = IF fail THEN awsLogging ELSE input
               /\ last' = Call("logging", "CreateOrUpdate", "none", "",
                               Wrap(SendError(fail), loggingPutFailed), FALSE,
                               <<"PutBucketLogging">>)
               /\ since' = SinceAfter("logging", "CreateOrUpdate", ~fail)
               /\ UNCHANGED running
               /\ UNCHANGED <<LoggingConfiguration, ServerSideEncryptionConfiguration,
                              awsSSE>>

\* a Delete that puts an empty BucketLoggingStatus
LoggingDeleteResets ==
    \E fail \in BOOLEAN :
        /\ awsLogging' = IF fail THEN awsLogging ELSE Nil
        /\ last' = Call("logging", "Delete", "none", "",
                        Wrap(SendError(fail), loggingPutFailed), FALSE,
                        <<"PutBucketLogging">>)
        /\ since' = SinceAfter("logging", "Delete", ~fail)
        /\ UNCHANGED running
        /\ UNCHANGED <<LoggingConfiguration, ServerSideEncryptionConfiguration,
                       awsSSE>>

LoggingDelete ==
    /\ last' = Call("logging", "Delete", "none", "", Nil, FALSE, <<>>)
    /\ since' = SinceAfter("logging", "Delete", FALSE)
    /\ UNCHANGED running
    /\ UNCHANGED <<LoggingConfiguration, ServerSideEncryptionConfiguration,
                   awsLogging, awsSSE>>

----------------------------------------------------------------------------
(* SSEConfigurationClient *)

\* bucket.Spec.ForProvider.ServerSideEncryptionConfiguration after
\* LateInitialize read a non-nil external configuration: a nil configuration
\* is replaced by an empty one, then Rules is assigned unless the translation
\* panics first
SSELateInitialized(local, external) ==
    IF GenerateLocalBucketEncryptionPanic(external)
    THEN IF local = Nil THEN Ptr([Rules |-> Nil]) ELSE local
    ELSE Ptr([Rules |-> GenerateLocalBucketEncryption(external)])

\* LateInitialize without the short stop for a bucket that has no encryption
SSELateInitializeErrorNoShortStop(err) == Wrap(err, sseGetFailed)

\* the error LateInitialize returns for the error of its read
SSELateInitializeError(err) ==
    IF err # Nil /\ ~SSEConfigurationNotFound(err)
    THEN Wrap(err, sseGetFailed)
    ELSE Nil

SSELateInitialize ==
    \E fail \in BOOLEAN :
        LET external == GetBucketEncryption(fail)
            config == external.ServerSideEncryptionConfiguration
            fill == external.err = Nil /\ config # Nil
            panic == fill /\ GenerateLocalBucketEncryptionPanic(Deref(config))
            err == SSELateInitializeError(external.err)
        IN /\ ServerSideEncryptionConfiguration' =
                IF fill
                THEN SSELateInitialized(ServerSideEncryptionConfiguration, Deref(config))
                ELSE ServerSideEncryptionConfiguration
           /\ last' = Call("sse", "LateInitialize", ReadClass(external.err), "", err,
                           panic, <<"GetBucketEncryption">>)
           /\ since' = SinceAfter("sse", "LateInitialize", FALSE)
           /\ UNCHANGED running
           /\ UNCHANGED <<LoggingConfiguration, awsLogging, awsSSE>>

\* an Observe that treats every failed read alike
SSEObserveResultNoAbsence(config, external) ==
    IF external.err # Nil
    THEN [status |-> NeedsUpdate,
          err |-> Wrap(Ignore(external.err), sseGetFailed),
          panic |-> FALSE]
    ELSE [status |-> SSEObserveSwitch(external.ServerSideEncryptionConfiguration, config).status,
          err |-> Nil,
          panic |-> SSEObserveSwitch(external.ServerSideEncryptionConfiguration, config).panic]

\* what Observe returns: the status, the error and whether it panicked
SSEObserveResult(config, external) ==
    IF external.err # Nil
    THEN IF SSEConfigurationNotFound(external.err) /\ config = Nil
         THEN [status |-> Updated, err |-> Nil, panic |-> FALSE]
         ELSE [status |-> NeedsUpdate,
               err |-> Wrap(Ignore(external.err), sseGetFailed),
               panic |-> FALSE]
    ELSE [status |-> SSEObserveSwitch(external.ServerSideEncryptionConfiguration, config).status,
          err |-> Nil,
          panic |-> SSEObserveSwitch(external.ServerSideEncryptionConfiguration, config).panic]

SSEObserve ==
    \E fail \in BOOLEAN :
        LET external == GetBucketEncryption(fail)
            result == SSEObserveResult(ServerSideEncryptionConfiguration, external)
        IN /\ last' = Call("sse", "Observe", ReadClass(external.err), result.status,
                           result.err, result.panic, <<"GetBucketEncryption">>)
           /\ since' = SinceAfter("sse", "Observe", FALSE)
           /\ UNCHANGED running
           /\ UNCHANGED <<LoggingConfiguration, ServerSideEncryptionConfiguration,
                          awsLogging, awsSSE>>

SSECreateOrUpdate ==
    IF ServerSideEncryptionConfiguration = Nil
    THEN /\ last' = Call("sse", "CreateOrUpdate", "none", "", Nil, FALSE, <<>>)
         /\ since' = SinceAfter("sse", "CreateOrUpdate", FALSE)
         /\ UNCHANGED running
         /\ UNCHANGED <<LoggingConfiguration, ServerSideEncryptionConfiguration,
                        awsLogging, awsSSE>>
    ELSE \E fail \in BOOLEAN :
            LET input == GeneratePutBucketEncryptionInput(Deref(ServerSideEncryptionConfiguration))
            IN /\ awsSSE' = IF fail THEN awsSSE
                            ELSE [notFound |-> FALSE,
                                  ServerSideEncryptionConfiguration |-> Ptr(input)]
               /\ last' = Call("sse", "CreateOrUpdate", "none", "",
                               Wrap(SendError(fail), ssePutFailed), FALSE,
                               <<"PutBucketEncryption">>)
               /\ since' = SinceAfter("sse", "CreateOrUpdate", ~fail)
               /\ UNCHANGED running
               /\ UNCHANGED <<LoggingConfiguration, ServerSideEncryptionConfiguration,
                              awsLogging>>

\* a bucket without encryption configuration: S3 answers a read with
\* ServerSideEncryptionConfigurationNotFoundError
SSENotFound == [notFound |-> TRUE, ServerSideEncryptionConfiguration |-> Nil]

\* the two forms in which a read reports that no encryption is configured
SSENotConfigured ==
    {SSENotFound, [notFound |-> FALSE, ServerSideEncryptionConfiguration |-> Nil]}

\* a Delete whose request S3 accepts without dropping the configuration
SSEDeleteKeeps ==
    \E fail \in BOOLEAN :
        /\ last' = Call("sse", "Delete", "none", "",
                        Wrap(SendError(fail), sseDeleteFailed), FALSE,
                        <<"DeleteBucketEncryption">>)
        /\ since' = SinceAfter("sse", "Delete", ~fail)
        /\ UNCHANGED running
        /\ UNCHANGED <<LoggingConfiguration, ServerSideEncryptionConfiguration,
                       awsLogging, awsSSE>>

SSEDelete ==
    \E fail \in BOOLEAN :
        /\ awsSSE' = IF fail THEN awsSSE ELSE SSENotFound
        /\ last' = Call("sse", "Delete", "none", "",
                        Wrap(SendError(fail), sseDeleteFailed), FALSE,
                        <<"DeleteBucketEncryption">>)
        /\ since' = SinceAfter("sse", "Delete", ~fail)
        /\ UNCHANGED running
        /\ UNCHANGED <<LoggingConfiguration, ServerSideEncryptionConfiguration,
                       awsLogging>>

----------------------------------------------------------------------------
(* Initial states *)

LocalGrantees ==
    {[DisplayName |-> Ptr("ops"), EmailAddress |-> Nil, ID |-> Ptr("id1"),
      Type |-> "CanonicalUser", URI |-> Nil],
     [DisplayName |-> Nil, EmailAddress |-> Ptr("a@b.c"), ID |-> Nil,
      Type |-> "Group", URI |-> Ptr("http://acs/log")]}

LocalGrants ==
    {[Grantee |-> g, Permission |-> IF g.Type = "Group" THEN "WRITE" ELSE "READ"] :
        g \in LocalGrantees}

\* the grants S3 reports with every field as in a local grant
AWSGrants == {AWSTargetGrant(g) : g \in LocalGrants}

\* a grant S3 reports without Grantee
AWSGrantNoGrantee == [Grantee |-> Nil, Permission |-> "READ"]

\* the grant lists S3 reports: up to MaxGrants grants, the last one possibly
\* without Grantee
AWSGrantLists ==
    SeqsUpTo(AWSGrants, MaxGrants)
        \cup {Append(s, AWSGrantNoGrantee) : s \in SeqsUpTo(AWSGrants, MaxGrants - 1)}

LocalLoggingConfigurations ==
    {Nil} \cup
    {Ptr([TargetBucket |-> bp[1], TargetPrefix |-> bp[2], TargetGrants |-> g]) :
        bp \in {<<Nil, "">>, <<Ptr("logs"), "">>, <<Ptr("logs"), "pre">>},
        g \in {Nil} \cup {Ptr(s) : s \in SeqsUpTo(LocalGrants, MaxGrants)}}

AWSLoggings ==
    {Nil} \cup
    {Ptr([TargetBucket |-> bp[1], TargetPrefix |-> bp[2], TargetGrants |-> g]) :
        bp \in {<<Ptr("logs"), Nil>>, <<Ptr("logs"), Ptr("pre")>>,
                <<Ptr("other"), Ptr("")>>, <<Ptr("other"), Ptr("old")>>},
        g \in {Nil} \cup {Ptr(s) : s \in AWSGrantLists}}

LocalApplies ==
    {[KMSMasterKeyID |-> Nil, SSEAlgorithm |-> "AES256"],
     [KMSMasterKeyID |-> Ptr("key"), SSEAlgorithm |-> "AES256"],
     [KMSMasterKeyID |-> Ptr("key"), SSEAlgorithm |-> "aws:kms"]}

LocalRules == {[ApplyServerSideEncryptionByDefault |-> a] : a \in LocalApplies}

\* the rules S3 reports with a default: an empty or a set key id
AWSRules ==
    {[ApplyServerSideEncryptionByDefault |-> Ptr(a)] :
        a \in {[KMSMasterKeyID |-> Ptr(""), SSEAlgorithm |-> "AES256"],
               [KMSMasterKeyID |-> Ptr("key"), SSEAlgorithm |-> "AES256"],
               [KMSMasterKeyID |-> Ptr("key"), SSEAlgorithm |-> "aws:kms"]}}

\* a rule S3 reports without ApplyServerSideEncryptionByDefault
AWSRuleNoDefault == [ApplyServerSideEncryptionByDefault |-> Nil]

\* the rule lists S3 reports: up to MaxRules rules, the last one possibly
\* without default
AWSRuleLists ==
    SeqsUpTo(AWSRules, MaxRules)
        \cup {Append(s, AWSRuleNoDefault) : s \in SeqsUpTo(AWSRules, MaxRules - 1)}

LocalSSEConfigurations ==
    {Nil} \cup
    {Ptr([Rules |-> r]) :
        r \in {Nil} \cup {Ptr(s) : s \in SeqsUpTo(LocalRules, MaxRules)}}

AWSSSEs ==
    SSENotConfigured \cup
    {[notFound |-> FALSE, ServerSideEncryptionConfiguration |-> Ptr([Rules |-> r])] :
        r \in {Nil} \cup {Ptr(s) : s \in AWSRuleLists}}

\* no operation in flight
Idle ==
    [pc |-> "idle", op |-> "", fail |-> FALSE, request |-> Nil,
     response |-> Nil, result |-> Nil]

\* the calls come one after the other
NotRunning == [logging |-> Idle, sse |-> Idle, from |-> Nil, overlap |-> FALSE]

NoCall ==
    [facet |-> "", op |-> "", read |-> "none", status |-> "", err |-> Nil,
     panic |-> FALSE, calls |-> <<>>, pre |-> Nil]

\* One facet starts anywhere in its bounded set, the other where a new bucket
\* has it: no Desired State and nothing configured in S3.
Init ==
    /\ \/ /\ LoggingConfiguration \in LocalLoggingConfigurations
          /\ awsLogging \in AWSLoggings
          /\ ServerSideEncryptionConfiguration = Nil
          /\ awsSSE = SSENotFound
       \/ /\ LoggingConfiguration = Nil
          /\ awsLogging = Nil
          /\ ServerSideEncryptionConfiguration \in LocalSSEConfigurations
          /\ awsSSE \in AWSSSEs
    /\ last = NoCall
    /\ since = NoWrite
    /\ running = NotRunning

Next ==
    \/ LoggingLateInitialize
    \/ LoggingObserve
    \/ LoggingCreateOrUpdate
    \/ LoggingDelete
    \/ SSELateInitialize
    \/ SSEObserve
    \/ SSECreateOrUpdate
    \/ SSEDelete

Spec == Init /\ [][Next]_vars

----------------------------------------------------------------------------
(* The reconciliation pass: for one facet after the other, LateInitialize,
   then Observe, then CreateOrUpdate on NeedsUpdate or Delete on
   NeedsDeletion, with every remote call succeeding and nothing else touching
   the bucket.  The position in the pass is read off the last call. *)

\* the last call ended its pass: there was none, it was the write of a pass,
\* it was an Observe that returned Updated, or it panicked
PassEnded ==
    \/ last.op \notin {"LateInitialize", "Observe"}
    \/ last.panic
    \/ last.op = "Observe" /\ last.status = Updated

\* the facet of the next pass
PassFacet == IF last.facet = "logging" THEN "sse" ELSE "logging"

PassLateInitialize ==
    /\ PassEnded
    /\ IF PassFacet = "logging" THEN LoggingLateInitialize ELSE SSELateInitialize
    /\ last'.read # "failed"

PassObserve ==
    /\ last.op = "LateInitialize"
    /\ ~last.panic
    /\ IF last.facet = "logging" THEN LoggingObserve ELSE SSEObserve
    /\ last'.read # "failed"

PassReconcile ==
    /\ last.op = "Observe"
    /\ ~last.panic
    /\ last.status # Updated
    /\ IF last.status = NeedsDeletion
       THEN IF last.facet = "logging" THEN LoggingDelete ELSE SSEDelete
       ELSE IF last.facet = "logging" THEN LoggingCreateOrUpdate ELSE SSECreateOrUpdate
    /\ last'.err = Nil

PassNext ==
    \/ PassLateInitialize
    \/ PassObserve
    \/ PassReconcile

\* the caller runs pass after pass
SpecPass == Init /\ [][PassNext]_vars /\ WF_vars(PassNext)

----------------------------------------------------------------------------
(* Two facets at once.  An operation is three steps: what it reads of the
   bucket before its request, the request to S3, and what it does with the
   response.  One operation of each facet runs, the steps of the two in any
   order. *)

Ops == {"LateInitialize", "Observe", "CreateOrUpdate", "Delete"}

\* before the request: CreateOrUpdate reads the configuration, returns at once
\* when it is nil and builds its input otherwise; the logging Delete sends
\* nothing; every other operation sends its request unconditionally
Request(facet, op, config) ==
    IF op = "CreateOrUpdate"
    THEN IF config = Nil
         THEN [send |-> FALSE, input |-> Nil]
         ELSE [send |-> TRUE,
               input |-> IF facet = "logging"
                         THEN GeneratePutBucketLoggingInput(Deref(config))
                         ELSE Ptr(GeneratePutBucketEncryptionInput(Deref(config)))]
    ELSE [send |-> ~(facet = "logging" /\ op = "Delete"), input |-> Nil]

\* the response of S3 to the read of a facet's configuration
RemoteRead(facet, remote, fail) ==
    IF fail THEN [err |-> Ptr(OtherErrorCode), config |-> Nil]
    ELSE IF facet = "logging" THEN [err |-> Nil, config |-> remote]
    ELSE IF remote.notFound THEN [err |-> Ptr(SSENotFoundCode), config |-> Nil]
    ELSE [err |-> Nil, config |-> remote.ServerSideEncryptionConfiguration]

\* the request: what S3 holds for the facet afterwards, and the response
RemoteCall(facet, op, fail, request, remote) ==
    IF ~request.send
    THEN [remote |-> remote, response |-> [err |-> Nil, config |-> Nil]]
    ELSE IF op \in {"LateInitialize", "Observe"}
    THEN [remote |-> remote, response |-> RemoteRead(facet, remote, fail)]
    ELSE [remote |-> IF fail THEN remote
                     ELSE IF op = "Delete" THEN SSENotFound
                     ELSE IF facet = "logging" THEN request.input
                     ELSE [notFound |-> FALSE,
                           ServerSideEncryptionConfiguration |-> request.input],
          response |-> [err |-> SendError(fail), config |-> Nil]]

\* after the response: the facet's configuration in the bucket and what the
\* operation returns
Complete(facet, op, config, request, response) ==
    LET fill == response.err = Nil /\ response.config # Nil
    IN  CASE op = "LateInitialize" /\ facet = "logging" ->
                LET panic == /\ fill
                             /\ LateInitializeGrantsPanic(
                                    IF config = Nil THEN Nil
                                    ELSE Deref(config).TargetGrants,
                                    Deref(response.config).TargetGrants)
                IN [config |-> IF fill
                               THEN LoggingLateInitialized(config, Deref(response.config))
                               ELSE config,
                    status |-> "",
                    err |-> IF panic THEN Nil ELSE Wrap(response.err, loggingGetFailed),
                    panic |-> panic]
          [] op = "LateInitialize" /\ facet = "sse" ->
                [config |-> IF fill
                            THEN SSELateInitialized(config, Deref(response.config))
                            ELSE config,
                 status |-> "",
                 err |-> SSELateInitializeError(response.err),
                 panic |-> fill /\ GenerateLocalBucketEncryptionPanic(Deref(response.config))]
          [] op = "Observe" /\ facet = "logging" ->
                [config |-> config,
                 status |-> IF response.err # Nil THEN NeedsUpdate
                            ELSE IF ~CmpEqual(GenerateAWSLogging(config), response.config)
                            THEN NeedsUpdate
                            ELSE Updated,
                 err |-> Wrap(response.err, loggingGetFailed),
                 panic |-> FALSE]
          [] op = "Observe" /\ facet = "sse" ->
                LET result == SSEObserveResult(config,
                                  [err |-> response.err,
                                   ServerSideEncryptionConfiguration |-> response.config])
                IN [config |-> config, status |-> result.status,
                    err |-> result.err, panic |-> result.panic]
          [] op = "CreateOrUpdate" ->
                [config |-> config,
                 status |-> "",
                 err |-> IF ~request.send THEN Nil
                         ELSE Wrap(response.err,
                                   IF facet = "logging" THEN loggingPutFailed
                                   ELSE ssePutFailed),
                 panic |-> FALSE]
          [] op = "Delete" ->
                [config |-> config,
                 status |-> "",
                 err |-> IF ~request.send THEN Nil
                         ELSE Wrap(response.err, sseDeleteFailed),
                 panic |-> FALSE]

\* a facet's configuration in the bucket and in S3, in the state snap
ConfigSlice(facet, snap) ==
    IF facet = "logging" THEN snap.LoggingConfiguration
    ELSE snap.ServerSideEncryptionConfiguration

RemoteSlice(facet, snap) ==
    IF facet = "logging" THEN snap.awsLogging ELSE snap.awsSSE

\* the operation run from start to end on the state snap, nothing in between
Sequential(facet, op, fail, snap) ==
    LET request == Request(facet, op, ConfigSlice(facet, snap))
        sent == RemoteCall(facet, op, fail, request, RemoteSlice(facet, snap))
        done == Complete(facet, op, ConfigSlice(facet, snap), request, sent.response)
    IN [state |-> IF facet = "logging"
                  THEN [snap EXCEPT !.LoggingConfiguration = done.config,
                                    !.awsLogging = sent.remote]
                  ELSE [snap EXCEPT !.ServerSideEncryptionConfiguration = done.config,
                                    !.awsSSE = sent.remote],
        result |-> [status |-> done.status, err |-> done.err, panic |-> done.panic]]

OtherFacet(facet) == IF facet = "logging" THEN "sse" ELSE "logging"

InFlight(facet) == running[facet].pc \in {"call", "finish"}

\* a facet's operation begins: it reads its configuration in the bucket
ConcStart(facet) ==
    \E op \in Ops, fail \in BOOLEAN :
        /\ running.from # Nil
        /\ running[facet].pc = "idle"
        /\ running' = [running EXCEPT
                ![facet] = [pc |-> "call", op |-> op, fail |-> fail,
                            request |-> Request(facet, op, ConfigSlice(facet, Snapshot)),
                            response |-> Nil, result |-> Nil],
                !.overlap = @ \/ InFlight(OtherFacet(facet))]
        /\ UNCHANGED <<LoggingConfiguration, ServerSideEncryptionConfiguration,
                       awsLogging, awsSSE, last, since>>

\* its request reaches S3
ConcCall(facet) ==
    /\ running[facet].pc = "call"
    /\ LET r == running[facet]
           sent == RemoteCall(facet, r.op, r.fail, r.request, RemoteSlice(facet, Snapshot))
       IN /\ IF facet = "logging"
             THEN awsLogging' = sent.remote /\ UNCHANGED awsSSE
             ELSE awsSSE' = sent.remote /\ UNCHANGED awsLogging
          /\ running' = [running EXCEPT ![facet].pc = "finish",
                                        ![facet].response = Ptr(sent.response)]
    /\ UNCHANGED <<LoggingConfiguration, ServerSideEncryptionConfiguration, last, since>>

\* an operation that writes back the whole ForProvider it started from, with
\* its own facet's configuration filled in
ConcFinishWholeSpec(facet) ==
    /\ running[facet].pc = "finish"
    /\ LET r == running[facet]
           done == Complete(facet, r.op, ConfigSlice(facet, Snapshot), r.request,
                            Deref(r.response))
       IN /\ IF facet = "logging"
             THEN /\ LoggingConfiguration' = done.config
                  /\ ServerSideEncryptionConfiguration' =
                        running.from.ServerSideEncryptionConfiguration
             ELSE /\ ServerSideEncryptionConfiguration' = done.config
                  /\ LoggingConfiguration' = running.from.LoggingConfiguration
          /\ running' = [running EXCEPT
                ![facet].pc = "done",
                ![facet].result = Ptr([status |-> done.status, err |-> done.err,
                                       panic |-> done.panic])]
    /\ UNCHANGED <<awsLogging, awsSSE, last, since>>

\* it works on the response and returns
ConcFinish(facet) ==
    /\ running[facet].pc = "finish"
    /\ LET r == running[facet]
           done == Complete(facet, r.op, ConfigSlice(facet, Snapshot), r.request,
                            Deref(r.response))
       IN /\ IF facet = "logging"
             THEN /\ LoggingConfiguration' = done.config
                  /\ UNCHANGED ServerSideEncryptionConfiguration
             ELSE /\ ServerSideEncryptionConfiguration' = done.config
                  /\ UNCHANGED LoggingConfiguration
          /\ running' = [running EXCEPT
                ![facet].pc = "done",
                ![facet].result = Ptr([status |-> done.status, err |-> done.err,
                                       panic |-> done.panic])]
    /\ UNCHANGED <<awsLogging, awsSSE, last, since>>

\* the buckets two operations start from: both facets anywhere in a part of
\* their bounded sets
ConcLoggingConfigurations ==
    {c \in LocalLoggingConfigurations :
        \/ c = Nil
        \/ /\ Deref(c).TargetBucket # Nil
           /\ \/ Deref(c).TargetPrefix = "pre" /\ Deref(c).TargetGrants = Nil
              \/ Deref(c).TargetPrefix = "" /\ Deref(c).TargetGrants = Ptr(<<>>)}

ConcAWSLoggings ==
    {Nil} \cup
    {e \in AWSLoggings :
        /\ e # Nil
        /\ Len0(Deref(e).TargetGrants) = 1
        /\ LET grant == Deref(Deref(e).TargetGrants)[1]
           IN \/ /\ Deref(e).TargetBucket = Ptr("other")
                 /\ grant.Grantee # Nil
                 /\ grant.Permission = "READ"
              \/ /\ Deref(e).TargetPrefix = Ptr("pre")
                 /\ grant.Grantee = Nil}

ConcSSEConfigurations ==
    {c \in LocalSSEConfigurations : c = Nil \/ Len0(Deref(c).Rules) = 1}

ConcAWSSSEs ==
    {e \in AWSSSEs : \/ e.ServerSideEncryptionConfiguration = Nil
                     \/ Len0(Deref(e.ServerSideEncryptionConfiguration).Rules) = 1}

ConcInit ==
    /\ LoggingConfiguration \in ConcLoggingConfigurations
    /\ awsLogging \in ConcAWSLoggings
    /\ ServerSideEncryptionConfiguration \in ConcSSEConfigurations
    /\ awsSSE \in ConcAWSSSEs
    /\ last = NoCall
    /\ since = NoWrite
    /\ running = [NotRunning EXCEPT !.from = Snapshot]

ConcNext ==
    \/ \E facet \in Facets : ConcStart(facet)
    \/ \E facet \in Facets : ConcCall(facet)
    \/ \E facet \in Facets : ConcFinish(facet)

SpecConc == ConcInit /\ [][ConcNext]_vars

----------------------------------------------------------------------------
(* Vocabulary of the properties *)

\* the facet's Desired State and its remote configuration in a snapshot
DesiredOf(facet, snap) ==
    IF facet = "logging" THEN snap.LoggingConfiguration
    ELSE snap.ServerSideEncryptionConfiguration

RemoteConfigOf(facet, snap) ==
    IF facet = "logging" THEN snap.awsLogging
    ELSE snap.awsSSE.ServerSideEncryptionConfiguration

\* the number of grants or rules of a present Desired State / remote configuration
CountOf(facet, config) ==
    IF facet = "logging" THEN Len0(Deref(config).TargetGrants)
    ELSE Len0(Deref(config).Rules)

\* the read request of a facet
ReadOf(facet) ==
    IF facet = "logging" THEN "GetBucketLogging" ELSE "GetBucketEncryption"

Returned(status) == last.status = status /\ last.err = Nil /\ ~last.panic

\* a local and a remote grant agree on every field
SameGrant(l, r) ==
    /\ r.Grantee # Nil
    /\ Deref(r.Grantee).DisplayName = l.Grantee.DisplayName
    /\ Deref(r.Grantee).EmailAddress = l.Grantee.EmailAddress
    /\ Deref(r.Grantee).ID = l.Grantee.ID
    /\ Deref(r.Grantee).Type = l.Grantee.Type
    /\ Deref(r.Grantee).URI = l.Grantee.URI
    /\ r.Permission = l.Permission

\* Desired State and remote logging agree: both absent, or the same bucket,
\* prefix (the local field has no unset form: unset remotely reads as empty)
\* and grants in order
LoggingAgrees(d, r) ==
    \/ d = Nil /\ r = Nil
    \/ /\ d # Nil
       /\ r # Nil
       /\ Deref(r).TargetBucket = Deref(d).TargetBucket
       /\ StringValue(Deref(r).TargetPrefix) = Deref(d).TargetPrefix
       /\ Len0(Deref(r).TargetGrants) = Len0(Deref(d).TargetGrants)
       /\ \A i \in 1..Len0(Deref(d).TargetGrants) :
            SameGrant(Deref(Deref(d).TargetGrants)[i], Deref(Deref(r).TargetGrants)[i])

\* key ids compared as pointers: unset differs from empty
SameKeyStrict(l, r) == l = r

\* key ids compared as values: unset and empty are the same
SameKeyValue(l, r) == StringValue(l) = StringValue(r)

\* Desired State and remote encryption agree under a comparison of key ids
SSEAgrees(d, r, SameKey(_, _)) ==
    \/ d = Nil /\ r = Nil
    \/ /\ d # Nil
       /\ r # Nil
       /\ Len0(Deref(r).Rules) = Len0(Deref(d).Rules)
       /\ \A i \in 1..Len0(Deref(d).Rules) :
            LET rule == Deref(Deref(d).Rules)[i].ApplyServerSideEncryptionByDefault
                out == Deref(Deref(r).Rules)[i].ApplyServerSideEncryptionByDefault
            IN /\ out # Nil
               /\ SameKey(rule.KMSMasterKeyID, Deref(out).KMSMasterKeyID)
               /\ Deref(out).SSEAlgorithm = rule.SSEAlgorithm

----------------------------------------------------------------------------
(* Properties *)

\* C1: LateInitialize of either facet never changes a Desired State field
\* that was set before the call: a set TargetBucket, a set TargetPrefix, a
\* non-empty TargetGrants list and a non-empty Rules list are the same after
\* the call as before it.
C1_LateInitializeKeepsSetFields ==
    last.op = "LateInitialize" =>
        /\ (last.facet = "logging" /\ last.pre.LoggingConfiguration # Nil) =>
                LET before == Deref(last.pre.LoggingConfiguration)
                    after == Deref(LoggingConfiguration)
                IN /\ before.TargetBucket # Nil => after.TargetBucket = before.TargetBucket
                   /\ before.TargetPrefix # "" => after.TargetPrefix = before.TargetPrefix
                   /\ Len0(before.TargetGrants) > 0 => after.TargetGrants = before.TargetGrants
        /\ (/\ last.facet = "sse"
            /\ last.pre.ServerSideEncryptionConfiguration # Nil
            /\ Len0(Deref(last.pre.ServerSideEncryptionConfiguration).Rules) > 0) =>
                ServerSideEncryptionConfiguration = last.pre.ServerSideEncryptionConfiguration

\* C2: an Observe whose read succeeds, made after one or more successful
\* CreateOrUpdate calls of the facet with a present Desired State and no
\* other call on the facet than Observe in between, returns Updated.
C2_ObserveUpdatedAfterCreateOrUpdate ==
    (/\ last.op = "Observe"
     /\ last.read = "ok"
     /\ since.facet = last.facet
     /\ since.op = "CreateOrUpdate") => Returned(Updated)

\* C3: encryption, Desired State absent.  Observe of a remote configuration
\* with at least one rule returns NeedsDeletion; a successful Delete leaves
\* nothing configured; the Observe after the Delete that followed
\* NeedsDeletion returns Updated with no error.
C3_DeleteThenUpdated ==
    /\ (/\ last.facet = "sse"
        /\ last.op = "Observe"
        /\ last.read = "ok"
        /\ last.pre.ServerSideEncryptionConfiguration = Nil
        /\ last.pre.awsSSE.ServerSideEncryptionConfiguration # Nil
        /\ CountOf("sse", last.pre.awsSSE.ServerSideEncryptionConfiguration) >= 1)
            => Returned(NeedsDeletion)
    /\ (last.facet = "sse" /\ last.op = "Delete" /\ last.err = Nil)
            => awsSSE \in SSENotConfigured
    /\ (/\ last.facet = "sse"
        /\ last.op = "Observe"
        /\ last.read # "failed"
        /\ since.facet = "sse"
        /\ since.op = "Delete"
        /\ since.after = NeedsDeletion
        /\ ServerSideEncryptionConfiguration = Nil)
            => Returned(Updated)

C3_Witness ==
    /\ last.facet = "sse"
    /\ last.op = "Observe"
    /\ since.facet = "sse"
    /\ since.op = "Delete"
    /\ since.after = NeedsDeletion
    /\ ServerSideEncryptionConfiguration = Nil
    /\ Returned(Updated)

\* C4: Observe of either facet, whatever it returns, leaves the bucket's
\* Desired State and the remote configuration as they were and sends one
\* read request and nothing else.
C4_ObserveChangesNothing ==
    last.op = "Observe" =>
        /\ Snapshot = last.pre
        /\ last.calls = <<ReadOf(last.facet)>>

C4_Witness ==
    /\ last.op = "Observe"
    /\ last.status = NeedsUpdate
    /\ last.facet = "logging"
    /\ LoggingConfiguration # Nil
    /\ Deref(LoggingConfiguration).TargetGrants = Nil
    /\ awsLogging # Nil

C6_AbsenceSymmetry ==
    (/\ last.op \in {"Observe", "CreateOrUpdate"}
     /\ DesiredOf(last.facet, last.pre) = Nil
     /\ RemoteConfigOf(last.facet, last.pre) = Nil) =>
        /\ (last.op = "Observe" /\ last.read # "failed") => Returned(Updated)
        /\ last.op = "CreateOrUpdate" => (last.calls = <<>> /\ last.err = Nil)

C6_Witness ==
    /\ last.op = "Observe"
    /\ last.facet = "sse"
    /\ last.read = "notfound"
    /\ ServerSideEncryptionConfiguration = Nil
    /\ Returned(Updated)

\* C7: Observe returns NeedsDeletion exactly when the facet is encryption,
\* the read succeeded with a configuration present and Desired State is
\* absent.
C7_NeedsDeletionIff ==
    last.op = "Observe" =>
        (last.status = NeedsDeletion <=>
            /\ last.facet = "sse"
            /\ last.read = "ok"
            /\ last.pre.awsSSE.ServerSideEncryptionConfiguration # Nil
            /\ last.pre.ServerSideEncryptionConfiguration = Nil)

C7_Witness ==
    /\ last.op = "Observe"
    /\ last.status = NeedsDeletion
    /\ ServerSideEncryptionConfiguration = Nil

\* C8: with Desired State present and a successful read of a present remote
\* configuration whose number of grants or rules differs from the desired
\* number, Observe returns NeedsUpdate.
C8_CountMismatchNeedsUpdate ==
    (/\ last.op = "Observe"
     /\ last.read = "ok"
     /\ DesiredOf(last.facet, last.pre) # Nil
     /\ RemoteConfigOf(last.facet, last.pre) # Nil
     /\ CountOf(last.facet, DesiredOf(last.facet, last.pre))
            # CountOf(last.facet, RemoteConfigOf(last.facet, last.pre)))
        => Returned(NeedsUpdate)

\* a longer remote rule list whose first rules are the desired ones
C8_Witness ==
    /\ last.op = "Observe"
    /\ last.facet = "sse"
    /\ last.read = "ok"
    /\ ServerSideEncryptionConfiguration # Nil
    /\ awsSSE.ServerSideEncryptionConfiguration # Nil
    /\ CountOf("sse", ServerSideEncryptionConfiguration) = 1
    /\ CountOf("sse", awsSSE.ServerSideEncryptionConfiguration) = 2
    /\ SSEAgrees(ServerSideEncryptionConfiguration,
                 Ptr([Rules |-> Ptr(SubSeq(Deref(Deref(awsSSE.ServerSideEncryptionConfiguration).Rules), 1, 1))]),
                 SameKeyStrict)
    /\ Returned(NeedsUpdate)

\* C9: CreateOrUpdate with an absent Desired State sends no request, returns
\* success and leaves Desired State and remote configuration unchanged.
C9_CreateOrUpdateNoOp ==
    (last.op = "CreateOrUpdate" /\ DesiredOf(last.facet, last.pre) = Nil) =>
        /\ last.calls = <<>>
        /\ last.err = Nil
        /\ ~last.panic
        /\ Snapshot = last.pre

C9_Witness ==
    /\ last.op = "CreateOrUpdate"
    /\ last.facet = "logging"
    /\ last.pre.LoggingConfiguration = Nil
    /\ awsLogging # Nil

\* C10: LateInitialize returns an error exactly when its read failed with
\* something other than the not-configured condition; when the read reports
\* that nothing is configured it returns success; and whenever the read
\* fails or reports that nothing is configured, Desired State is unchanged.
C10_LateInitializeErrors ==
    last.op = "LateInitialize" =>
        /\ last.err # Nil <=> last.read = "failed"
        /\ (last.read # "ok" \/ RemoteConfigOf(last.facet, last.pre) = Nil) =>
                Snapshot = last.pre
        /\ (last.read # "failed" /\ RemoteConfigOf(last.facet, last.pre) = Nil) =>
                (last.err = Nil /\ ~last.panic)

C10_Witness ==
    /\ last.op = "LateInitialize"
    /\ last.facet = "sse"
    /\ last.read = "notfound"
    /\ ServerSideEncryptionConfiguration # Nil
    /\ last.err = Nil

\* the tag of the errors of a facet's read
GetFailedOf(facet) ==
    IF facet = "logging" THEN loggingGetFailed ELSE sseGetFailed

\* C11: when its read fails with something other than the not-configured
\* condition, Observe of either facet returns an error carrying the facet's
\* read tag and does not report Updated, with Desired State present or absent.
C11_ObserveReadFailure ==
    (last.op = "Observe" /\ last.read = "failed") =>
        /\ last.err # Nil
        /\ Deref(last.err).tag = GetFailedOf(last.facet)
        /\ last.status # Updated

C11_Witness ==
    /\ last.op = "Observe"
    /\ last.facet = "sse"
    /\ last.read = "failed"
    /\ ServerSideEncryptionConfiguration = Nil
    /\ last.err # Nil

\* C16: logging, Desired State absent, successful read of a present remote
\* configuration: Observe returns NeedsUpdate with no error.
C16_LoggingAbsentDesiredNeedsUpdate ==
    (/\ last.op = "Observe"
     /\ last.facet = "logging"
     /\ last.read = "ok"
     /\ last.pre.LoggingConfiguration = Nil
     /\ last.pre.awsLogging # Nil) => Returned(NeedsUpdate)

C16_Witness ==
    /\ last.op = "Observe"
    /\ last.facet = "logging"
    /\ last.read = "ok"
    /\ LoggingConfiguration = Nil
    /\ awsLogging # Nil
    /\ Returned(NeedsUpdate)

\* C17: encryption, Desired State present, the read answered with the
\* not-configured condition: Observe returns NeedsUpdate and a nil error.
C17_NotFoundAbsorbed ==
    (/\ last.op = "Observe"
     /\ last.facet = "sse"
     /\ last.read = "notfound"
     /\ last.pre.ServerSideEncryptionConfiguration # Nil) => Returned(NeedsUpdate)

C17_Witness ==
    /\ last.op = "Observe"
    /\ last.facet = "sse"
    /\ last.read = "notfound"
    /\ ServerSideEncryptionConfiguration # Nil
    /\ Returned(NeedsUpdate)

\* C20: logging, Desired State absent and a remote configuration present: a
\* call of Observe, CreateOrUpdate or Delete sends no write request, leaves
\* Desired State absent and the remote configuration as it was, and an Observe
\* returns NeedsUpdate; the state after the call is again such a state, so
\* this holds along any sequence of these calls.
C20_LoggingNeverSettles ==
    (/\ last.facet = "logging"
     /\ last.op \in {"Observe", "CreateOrUpdate", "Delete"}
     /\ last.pre.LoggingConfiguration = Nil
     /\ last.pre.awsLogging # Nil) =>
        /\ \A i \in 1..Len(last.calls) : last.calls[i] = "GetBucketLogging"
        /\ LoggingConfiguration = Nil
        /\ awsLogging = last.pre.awsLogging
        /\ last.op = "Observe" => last.status = NeedsUpdate

C20_Witness ==
    /\ last.facet = "logging"
    /\ last.op = "Delete"
    /\ last.pre.LoggingConfiguration = Nil
    /\ LoggingConfiguration = Nil
    /\ awsLogging # Nil
    /\ awsLogging = last.pre.awsLogging

\* C13: after a successful CreateOrUpdate the remote holds the request shape
\* of the Desired State d; translating that back restores what d defines.
\* Logging: late-initializing an empty Desired State from it yields d's target
\* bucket, prefix and grants in order.  Encryption:
\* GenerateLocalBucketEncryption of it yields d's rules in order, key id
\* (unset staying unset) and algorithm.
C13_RoundTrip ==
    (/\ last.op = "CreateOrUpdate"
     /\ last.err = Nil
     /\ DesiredOf(last.facet, last.pre) # Nil) =>
        IF last.facet = "logging"
        THEN LET d == Deref(LoggingConfiguration)
                 back == Deref(LoggingLateInitialized(Nil, Deref(awsLogging)))
             IN /\ back.TargetBucket = d.TargetBucket
                /\ back.TargetPrefix = d.TargetPrefix
                /\ Elems(back.TargetGrants) = Elems(d.TargetGrants)
        ELSE Elems(GenerateLocalBucketEncryption(
                        Deref(awsSSE.ServerSideEncryptionConfiguration)))
                = Elems(Deref(ServerSideEncryptionConfiguration).Rules)

\* two different grants, one of them with a URI, and an empty prefix
C13_Witness ==
    /\ last.op = "CreateOrUpdate"
    /\ last.facet = "logging"
    /\ last.err = Nil
    /\ LoggingConfiguration # Nil
    /\ Deref(LoggingConfiguration).TargetPrefix = ""
    /\ CountOf("logging", LoggingConfiguration) = 2
    /\ Deref(Deref(LoggingConfiguration).TargetGrants)[1]
            # Deref(Deref(LoggingConfiguration).TargetGrants)[2]
    /\ Deref(Deref(LoggingConfiguration).TargetGrants)[1].Grantee.URI # Nil

\* C14: logging.  LateInitialize with a Desired State that is absent or has
\* no grants, after a successful read of a remote configuration with n >= 1
\* grants, leaves a Desired State with exactly n grants, grant i agreeing
\* with remote grant i on every field.
C14_GrantsCopied ==
    (/\ last.op = "LateInitialize"
     /\ last.facet = "logging"
     /\ last.read = "ok"
     /\ last.pre.awsLogging # Nil
     /\ CountOf("logging", last.pre.awsLogging) >= 1
     /\ \/ last.pre.LoggingConfiguration = Nil
        \/ CountOf("logging", last.pre.LoggingConfiguration) = 0) =>
        /\ LoggingConfiguration # Nil
        /\ CountOf("logging", LoggingConfiguration) = CountOf("logging", last.pre.awsLogging)
        /\ \A i \in 1..CountOf("logging", last.pre.awsLogging) :
                SameGrant(Deref(Deref(LoggingConfiguration).TargetGrants)[i],
                          Deref(Deref(last.pre.awsLogging).TargetGrants)[i])

\* C15: a LateInitialize whose read succeeded completes and returns.
C15_LateInitializeReturns ==
    (last.op = "LateInitialize" /\ last.read = "ok") => ~last.panic

\* C19: an Observe with a successful read that directly follows a successful
\* LateInitialize of the same facet, which started with Desired State absent
\* and a remote configuration present, returns Updated.
C19_ObserveAfterLateInitialize ==
    [][(/\ last.op = "LateInitialize"
        /\ last.read = "ok"
        /\ last.err = Nil
        /\ ~last.panic
        /\ DesiredOf(last.facet, last.pre) = Nil
        /\ RemoteConfigOf(last.facet, last.pre) # Nil
        /\ last'.op = "Observe"
        /\ last'.facet = last.facet
        /\ last'.read = "ok")
            => (last'.status = Updated /\ last'.err = Nil /\ ~last'.panic)]_vars

\* C18: when pass follows pass with every remote call succeeding, each
\* facet reaches a pass whose Observe returns Updated, and from some pass on
\* every Observe returns Updated.
C18_PassesConverge ==
    /\ <>[](last.op = "Observe" => Returned(Updated))
    /\ []<>(last.op = "Observe" /\ last.facet = "logging" /\ Returned(Updated))
    /\ []<>(last.op = "Observe" /\ last.facet = "sse" /\ Returned(Updated))

\* the state and the two results after the two operations ran one after the
\* other, in the given order, from the state both started in
InOrder(first, second) ==
    LET a == Sequential(first, running[first].op, running[first].fail, running.from)
        b == Sequential(second, running[second].op, running[second].fail, a.state)
    IN /\ Snapshot = b.state
       /\ running[first].result = Ptr(a.result)
       /\ running[second].result = Ptr(b.result)

\* a facet's configuration that no step has written yet is as it started
Untouched(facet) ==
    /\ running[facet].pc \in {"idle", "call"}
            => RemoteSlice(facet, Snapshot) = RemoteSlice(facet, running.from)
    /\ running[facet].pc \in {"idle", "call", "finish"}
            => ConfigSlice(facet, Snapshot) = ConfigSlice(facet, running.from)

\* C12: when one operation of the logging facet and one of the encryption
\* facet run at once, their steps in any order, the final Desired State, the
\* final remote configuration and both results are those of running the two
\* one after the other; no step of one facet changes the other facet's part
\* of the Desired State or of the remote configuration.
C12_FacetsIndependent ==
    /\ \A facet \in Facets : Untouched(facet)
    /\ (running.logging.pc = "done" /\ running.sse.pc = "done")
            => (InOrder("logging", "sse") \/ InOrder("sse", "logging"))

\* both operations are over, one began while the other was in flight, and
\* each changed its facet
C12_Witness ==
    /\ running.logging.pc = "done"
    /\ running.sse.pc = "done"
    /\ running.overlap
    /\ LoggingConfiguration # running.from.LoggingConfiguration
    /\ awsSSE # running.from.awsSSE

====
